---- MODULE Spec2Model ----
\* Model of Shared_Funcs/pemfc_transport_funcs.py: the planar advection-diffusion
\* flux kernel fickian_adf, which queries a shared property provider `gas`, and
\* the radial finite-difference kernel radial_fdiff.
EXTENDS Integers, Sequences, FiniteSets, TLC

\* ------------------------------------------------------------------ numbers
\* A number is n/d * 10^e in canonical form: d > 0 and coprime to 10 and to n,
\* 10 does not divide n, and zero is 0/1 * 10^0.  Python's floats are modelled
\* by the exact values they approximate.

RECURSIVE Gcd(_, _)
Gcd(a, b) == IF b = 0 THEN a ELSE Gcd(b, a % b)

Abs(i) == IF i < 0 THEN -i ELSE i

RECURSIVE Pow10(_)
Pow10(k) == IF k = 0 THEN 1 ELSE 10 * Pow10(k - 1)

RECURSIVE Norm(_, _, _)
Norm(n, d, e) ==
    IF n = 0 THEN [n |-> 0, d |-> 1, e |-> 0]
    ELSE IF d < 0 THEN Norm(-n, -d, e)
    ELSE LET g == Gcd(Abs(n), d)
             n1 == n \div g
             d1 == d \div g
         IN  IF d1 % 2 = 0 THEN Norm(5 * n1, d1 \div 2, e - 1)
             ELSE IF d1 % 5 = 0 THEN Norm(2 * n1, d1 \div 5, e - 1)
             ELSE IF n1 % 10 = 0 THEN Norm(n1 \div 10, d1, e + 1)
             ELSE [n |-> n1, d |-> d1, e |-> e]

N(i) == Norm(i, 1, 0)
Q(n, d) == Norm(n, d, 0)
E(m, e) == Norm(m, 1, e)
Zero == N(0)
One == N(1)

Neg(a) == [a EXCEPT !.n = -a.n]
Mul(a, b) == Norm(a.n * b.n, a.d * b.d, a.e + b.e)
Div(a, b) == Norm(a.n * b.d, a.d * b.n, a.e - b.e)
Add(a, b) ==
    IF a.n = 0 THEN b
    ELSE IF b.n = 0 THEN a
    ELSE LET e == IF a.e < b.e THEN a.e ELSE b.e
         IN  Norm(a.n * Pow10(a.e - e) * b.d + b.n * Pow10(b.e - e) * a.d,
                  a.d * b.d, e)
Sub(a, b) == Add(a, Neg(b))
Positive(a) == a.n > 0

\* numpy's elementwise arithmetic on species vectors, scalars broadcast.
VNeg(v) == [k \in DOMAIN v |-> Neg(v[k])]
VAdd(v, w) == [k \in DOMAIN v |-> Add(v[k], w[k])]
VSub(v, w) == [k \in DOMAIN v |-> Sub(v[k], w[k])]
VMul(v, w) == [k \in DOMAIN v |-> Mul(v[k], w[k])]
SMul(a, v) == [k \in DOMAIN v |-> Mul(a, v[k])]
VDiv(v, a) == [k \in DOMAIN v |-> Div(v[k], a)]
VZero(v) == [k \in DOMAIN v |-> Zero]

RECURSIVE VSum(_)
VSum(v) == IF v = <<>> THEN Zero ELSE Add(Head(v), VSum(Tail(v)))

\* ------------------------------------------------------- property provider
\* A TDY state is [T, D, Y]: temperature, bulk density, mass fractions.

TDYState(T, D, Y) == [T |-> T, D |-> D, Y |-> Y]

sA == TDYState(300, N(1), <<N(1), N(0)>>)
sB == TDYState(350, N(2), <<Q(1, 2), Q(1, 2)>>)
sS == TDYState(350, N(1), <<N(1)>>)
sX == TDYState(300, N(-1), <<N(1), N(0)>>)
States == {sA, sB, sS, sX}

\* Two providers: "mix", a two-species mixture whose properties are functions
\* of the state it holds, and "stub", the single-species provider of the
\* concrete scenario, which reports the scripted pressures 101325 and 101300
\* on alternate settings of its state.
Kinds == {"mix", "stub"}
NSpecies(kind) == IF kind = "mix" THEN 2 ELSE 1

Valid(kind, s) ==
    /\ s.T > 0
    /\ Positive(s.D)
    /\ Len(s.Y) = NSpecies(kind)
    /\ \A k \in DOMAIN s.Y : s.Y[k].n >= 0
    /\ VSum(s.Y) = One

FreshGas(kind) ==
    [kind |-> kind, TDY |-> IF kind = "mix" THEN sA ELSE sS, nset |-> 0]

\* gas.TDY = s, for a state the provider accepts.
SetTDY(g, s) ==
    [g EXCEPT !.TDY = s, !.nset = IF g.kind = "stub" THEN 1 - @ ELSE @]

mix_diff_coeffs_mass(g) ==
    IF g.kind = "stub" THEN <<E(2, -5)>>
    ELSE IF g.TDY.T = 300 THEN <<N(1), N(2)>> ELSE <<N(2), N(3)>>
density_mass(g) == g.TDY.D
viscosity(g) ==
    IF g.kind = "stub" THEN E(2, -5)
    ELSE IF g.TDY.T = 300 THEN N(2) ELSE N(3)
gas_P(g) ==
    IF g.kind = "stub" THEN (IF g.nset = 1 THEN N(101325) ELSE N(101300))
    ELSE Mul(g.TDY.D, N(g.TDY.T))
gas_Y(g) == g.TDY.Y

\* ------------------------------------------------------------- fickian_adf

FParams(wt1, wt2, K_g, inv_dy, eps_tau2) ==
    [wt1 |-> wt1, wt2 |-> wt2, K_g |-> K_g, inv_dy |-> inv_dy,
     eps_tau2 |-> eps_tau2]

pHalf == FParams(Q(1, 2), Q(1, 2), N(3), N(2), Q(1, 2))
pBdry == FParams(Q(1, 4), Q(3, 4), N(3), N(2), Q(1, 2))
pScen == FParams(Q(1, 2), Q(1, 2), E(1, -12), N(100), Q(1, 2))
\* The runner's parameter sets: interior and domain-boundary interfaces of the
\* mixture, and the parameters of the concrete scenario for the stub.
Params(kind) == IF kind = "mix" THEN {pHalf, pBdry} ELSE {pScen}

\* The toggle as the runner passes it: the integers 0 and 1, or the bool True.
Togs == {"0", "1", "True"}
TogNum(tog) == IF tog = "0" THEN Zero ELSE One

NoState == TDYState(0, Zero, <<>>)
IdleFrame ==
    [pc |-> "idle", TDY1 |-> NoState, TDY2 |-> NoState, p |-> pHalf,
     tog |-> "0",
     D_k1 |-> <<>>, rho1 |-> Zero, mu1 |-> Zero, P1 |-> Zero, Y1 |-> <<>>,
     rho_k1 |-> <<>>,
     D_k2 |-> <<>>, rho2 |-> Zero, mu2 |-> Zero, P2 |-> Zero, Y2 |-> <<>>,
     rho_k2 |-> <<>>,
     outcome |-> "none", mass_flux |-> <<>>]

Entry(TDY1, TDY2, p, tog) ==
    [IdleFrame EXCEPT !.pc = "set1", !.TDY1 = TDY1, !.TDY2 = TDY2, !.p = p,
                      !.tog = tog]

Raise(f, g, exc) == [f |-> [f EXCEPT !.pc = "exit", !.outcome = exc], g |-> g]

\* Fault variant: node 1 is read without setting the provider to TDY1.
SetState1_Skip(f, g) ==
    IF Valid(g.kind, f.TDY1)
    THEN [f |-> [f EXCEPT !.pc = "read1"], g |-> g]
    ELSE Raise(f, g, "InvalidState")

\* gas.TDY = TDY1
SetState1(f, g) ==
    IF Valid(g.kind, f.TDY1)
    THEN [f |-> [f EXCEPT !.pc = "read1"], g |-> SetTDY(g, f.TDY1)]
    ELSE Raise(f, g, "InvalidState")

\* Fault variant: node 1 is read from a private snapshot at TDY1 instead of
\* from the shared provider.
ReadProps1_Private(f, g) ==
    LET own == [g EXCEPT !.TDY = f.TDY1]
    IN  [f |-> [f EXCEPT !.pc = "set2",
                         !.D_k1 = mix_diff_coeffs_mass(own),
                         !.rho1 = density_mass(own),
                         !.mu1 = viscosity(own),
                         !.P1 = gas_P(own),
                         !.Y1 = gas_Y(own),
                         !.rho_k1 = SMul(density_mass(own), gas_Y(own))],
         g |-> g]

\* D_k1 = gas.mix_diff_coeffs_mass ... rho_k1 = rho1*Y1
ReadProps1(f, g) ==
    [f |-> [f EXCEPT !.pc = "set2",
                     !.D_k1 = mix_diff_coeffs_mass(g),
                     !.rho1 = density_mass(g),
                     !.mu1 = viscosity(g),
                     !.P1 = gas_P(g),
                     !.Y1 = gas_Y(g),
                     !.rho_k1 = SMul(density_mass(g), gas_Y(g))],
     g |-> g]

\* Fault variant: the second assignment repeats TDY1.
SetState2_Stale(f, g) ==
    IF Valid(g.kind, f.TDY2)
    THEN [f |-> [f EXCEPT !.pc = "read2"], g |-> SetTDY(g, f.TDY1)]
    ELSE Raise(f, g, "InvalidState")

\* Fault variant: a rejected TDY2 is swallowed and the provider keeps TDY1.
SetState2_Clamp(f, g) ==
    IF Valid(g.kind, f.TDY2)
    THEN [f |-> [f EXCEPT !.pc = "read2"], g |-> SetTDY(g, f.TDY2)]
    ELSE [f |-> [f EXCEPT !.pc = "read2"], g |-> g]

\* gas.TDY = TDY2
SetState2(f, g) ==
    IF Valid(g.kind, f.TDY2)
    THEN [f |-> [f EXCEPT !.pc = "read2"], g |-> SetTDY(g, f.TDY2)]
    ELSE Raise(f, g, "InvalidState")

\* D_k2 = gas.mix_diff_coeffs_mass ... rho_k2 = rho2*Y2
ReadProps2(f, g) ==
    [f |-> [f EXCEPT !.pc = "calc",
                     !.D_k2 = mix_diff_coeffs_mass(g),
                     !.rho2 = density_mass(g),
                     !.mu2 = viscosity(g),
                     !.P2 = gas_P(g),
                     !.Y2 = gas_Y(g),
                     !.rho_k2 = SMul(density_mass(g), gas_Y(g))],
     g |-> g]

\* Boundary averages.
Avg_D_k(f) == VAdd(SMul(f.p.wt1, f.D_k1), SMul(f.p.wt2, f.D_k2))
Avg_rho(f) == Add(Mul(f.p.wt1, f.rho1), Mul(f.p.wt2, f.rho2))
\* Fault variant: both viscosities weighted by wt1.
Avg_mu_Wt1(f) == Add(Mul(f.p.wt1, f.mu1), Mul(f.p.wt1, f.mu2))
Avg_mu(f) == Add(Mul(f.p.wt1, f.mu1), Mul(f.p.wt2, f.mu2))
Avg_rho_k(f) == VAdd(SMul(f.p.wt1, f.rho_k1), SMul(f.p.wt2, f.rho_k2))

\* Fault variant: pressure difference taken as P1 - P2.
J_conv_Sign(f) ==
    VDiv(SMul(f.p.inv_dy,
              SMul(Sub(f.P1, f.P2), SMul(f.p.K_g, VNeg(Avg_rho_k(f))))),
         Avg_mu(f))

\* J_conv = -rho_k*p['K_g']*(P2 - P1)*p['1/dy'] / mu
J_conv(f) ==
    VDiv(SMul(f.p.inv_dy,
              SMul(Sub(f.P2, f.P1), SMul(f.p.K_g, VNeg(Avg_rho_k(f))))),
         Avg_mu(f))

\* J_diff = -p['eps/tau2']*D_k*rho*(Y2 - Y1)*p['1/dy']
J_diff(f) ==
    SMul(f.p.inv_dy,
         VMul(SMul(Avg_rho(f), SMul(Neg(f.p.eps_tau2), Avg_D_k(f))),
              VSub(f.Y2, f.Y1)))

\* Fault variant: the toggle is ignored.
MassFlux_NoTog(f) == VAdd(J_conv(f), J_diff(f))

\* mass_flux = tog*(J_conv + J_diff)
MassFlux(f) == SMul(TogNum(f.tog), VAdd(J_conv(f), J_diff(f)))

\* return mass_flux
Calc(f, g) ==
    [f |-> [f EXCEPT !.pc = "exit", !.outcome = "return",
                     !.mass_flux = MassFlux(f)],
     g |-> g]

\* One statement group of a call; "calc" touches only locals and is taken
\* together with the reads of node 2.
Step(f, g) ==
    CASE f.pc = "set1" -> SetState1(f, g)
      [] f.pc = "read1" -> ReadProps1(f, g)
      [] f.pc = "set2" -> SetState2(f, g)
      [] f.pc = "read2" -> LET r == ReadProps2(f, g) IN Calc(r.f, r.g)

\* A whole call run without interruption on provider g.
RECURSIVE Run(_, _)
Run(f, g) == IF f.pc = "exit" THEN [f |-> f, g |-> g]
             ELSE LET r == Step(f, g) IN Run(r.f, r.g)

fickian_adf(TDY1, TDY2, g, p, tog) == Run(Entry(TDY1, TDY2, p, tog), g)

\* ------------------------------------------------------------ radial_fdiff

RParams(r_jph, inv_dr, inv_r_j, inv_t_shl) ==
    [D_eff_naf |-> N(2), p_eff_SAnaf |-> Q(1, 2), eps_tau2_n2 |-> N(3),
     r_jph |-> r_jph, inv_dr |-> inv_dr, inv_r_j |-> inv_r_j,
     inv_t_shl |-> inv_t_shl]

\* Node arrays of equal length, and a set whose shell arrays are shorter.
rpEven == RParams(<<N(2), N(3)>>, <<N(1), N(2)>>,
                  <<Q(1, 2), Q(1, 3)>>, <<N(4), N(5)>>)
rpRagged == RParams(<<N(2), N(3), N(4)>>, <<N(1), N(2), N(3)>>,
                    <<Q(1, 2), Q(1, 3)>>, <<N(4), N(5)>>)
RadialParams == {rpEven, rpRagged}

RhoVectors == {<<N(1), N(0)>>, <<N(2), N(1)>>, <<Q(1, 2), N(3)>>}

MaxNode == 3
MaxVer == 3
Nodes == (0 - MaxNode - 1) .. MaxNode
Vers == 0 .. MaxVer

\* arr[node] of a Python sequence: positions 0..len-1, and -len..-1 counted
\* from the end; any other index raises IndexError.
\* Fault variant: negative positions rejected.
PyInRange_NoWrap(arr, node) == 0 <= node /\ node < Len(arr)
PyInRange(arr, node) == (0 - Len(arr)) <= node /\ node < Len(arr)
PyIndex(arr, node) == IF node < 0 THEN arr[Len(arr) + node + 1] ELSE arr[node + 1]

Sq(a) == Mul(a, a)

\* ver == 1: D_eff_naf * p_eff_SAnaf * eps/tau2_n2
\*           * (r_jph[node]**2 * (rho_k1 - rho_k2) * 1/dr[node])
Variant1(rho_k1, rho_k2, p, node) ==
    SMul(Mul(Mul(p.D_eff_naf, p.p_eff_SAnaf), p.eps_tau2_n2),
         SMul(PyIndex(p.inv_dr, node),
              SMul(Sq(PyIndex(p.r_jph, node)), VSub(rho_k1, rho_k2))))

\* Fault variant: 1/r_j[node] not squared.
Variant2_NoSq(rho_k1, rho_k2, p, node) ==
    SMul(PyIndex(p.inv_t_shl, node),
         SMul(PyIndex(p.inv_r_j, node), Variant1(rho_k1, rho_k2, p, node)))

\* ver == 2: the same product * 1/r_j[node]**2 * 1/t_shl[node]
Variant2(rho_k1, rho_k2, p, node) ==
    SMul(PyIndex(p.inv_t_shl, node),
         SMul(Sq(PyIndex(p.inv_r_j, node)),
              SMul(Mul(Mul(p.D_eff_naf, p.p_eff_SAnaf), p.eps_tau2_n2),
                   SMul(PyIndex(p.inv_dr, node),
                        SMul(Sq(PyIndex(p.r_jph, node)),
                             VSub(rho_k1, rho_k2))))))

\* The node arrays the chosen branch subscripts.
Indexed(p, ver) ==
    IF ver = 1 THEN {p.r_jph, p.inv_dr}
    ELSE {p.r_jph, p.inv_dr, p.inv_r_j, p.inv_t_shl}

RadialResult(outcome, drho_dt) == [outcome |-> outcome, drho_dt |-> drho_dt]

\* Fault variant: the second branch is a plain else.
radial_fdiff_Else(rho_k1, rho_k2, p, node, ver) ==
    IF \A arr \in Indexed(p, ver) : PyInRange(arr, node)
    THEN RadialResult("return",
             IF ver = 1 THEN Variant1(rho_k1, rho_k2, p, node)
             ELSE Variant2(rho_k1, rho_k2, p, node))
    ELSE RadialResult("IndexError", <<>>)

radial_fdiff(rho_k1, rho_k2, p, node, ver) ==
    IF ver = 1 \/ ver = 2
    THEN IF \A arr \in Indexed(p, ver) : PyInRange(arr, node)
         THEN RadialResult("return",
                  IF ver = 1 THEN Variant1(rho_k1, rho_k2, p, node)
                  ELSE Variant2(rho_k1, rho_k2, p, node))
         ELSE RadialResult("IndexError", <<>>)
    \* neither branch assigned drho_dt: `return drho_dt` raises
    ELSE RadialResult("UnboundLocalError", <<>>)

\* ------------------------------------------------------------------ system
Workers == {1, 2}
MaxCalls == 2

VARIABLES gas, frame, serial, ncalls, rad

vars == <<gas, frame, serial, ncalls, rad>>

IdleRad ==
    [pc |-> "idle", rho_k1 |-> <<>>, rho_k2 |-> <<>>, p |-> rpEven, node |-> 0,
     ver |-> 0, outcome |-> "none", drho_dt |-> <<>>]

Init ==
    /\ \E kind \in Kinds : gas = FreshGas(kind)
    /\ frame = [w \in Workers |-> IdleFrame]
    /\ serial \in BOOLEAN
    /\ ncalls = 0
    /\ rad = IdleRad

\* A worker of the runner calls fickian_adf on the shared provider.  A runner
\* that serializes its calls starts one only when no other call is in progress.
Call(w) ==
    /\ frame[w].pc = "idle"
    /\ ncalls < MaxCalls
    /\ serial => \A v \in Workers : frame[v].pc = "idle"
    /\ \E TDY1 \in States, TDY2 \in States, p \in Params(gas.kind), tog \in Togs :
          frame' = [frame EXCEPT ![w] = Entry(TDY1, TDY2, p, tog)]
    /\ ncalls' = ncalls + 1
    /\ UNCHANGED <<gas, serial, rad>>

Exec(w) ==
    /\ frame[w].pc \in {"set1", "read1", "set2", "read2"}
    /\ LET r == Step(frame[w], gas)
       IN  /\ frame' = [frame EXCEPT ![w] = r.f]
           /\ gas' = r.g
    /\ UNCHANGED <<serial, ncalls, rad>>

\* The call hands its result or its exception to the runner.
Return(w) ==
    /\ frame[w].pc = "exit"
    /\ frame' = [frame EXCEPT ![w] = IdleFrame]
    /\ UNCHANGED <<gas, serial, ncalls, rad>>

Next == \E w \in Workers : Call(w) \/ Exec(w) \/ Return(w)

Spec == Init /\ [][Next]_vars

\* The runner calls radial_fdiff, a function of its arguments alone.
RadialCall ==
    /\ rad.pc = "idle"
    /\ \E rho_k1 \in RhoVectors, rho_k2 \in RhoVectors, p \in RadialParams,
          node \in Nodes, ver \in Vers :
          rad' = [IdleRad EXCEPT !.pc = "call", !.rho_k1 = rho_k1,
                                 !.rho_k2 = rho_k2, !.p = p, !.node = node,
                                 !.ver = ver]
    /\ UNCHANGED <<gas, frame, serial, ncalls>>

RadialExec ==
    /\ rad.pc = "call"
    /\ LET r == radial_fdiff(rad.rho_k1, rad.rho_k2, rad.p, rad.node, rad.ver)
       IN  rad' = [rad EXCEPT !.pc = "exit", !.outcome = r.outcome,
                              !.drho_dt = r.drho_dt]
    /\ UNCHANGED <<gas, frame, serial, ncalls>>

RadialReturn ==
    /\ rad.pc = "exit"
    /\ rad' = IdleRad
    /\ UNCHANGED <<gas, frame, serial, ncalls>>

NextRadial == RadialCall \/ RadialExec \/ RadialReturn

SpecRadial == Init /\ [][NextRadial]_vars

\* ------------------------------------------------------------------ claims

Exited(w) == frame[w].pc = "exit"
Returned(w) == Exited(w) /\ frame[w].outcome = "return"

\* The flux the same call returns when run alone on a provider of its own.
AloneFlux(f) ==
    fickian_adf(f.TDY1, f.TDY2, FreshGas(gas.kind), f.p, f.tog).f.mass_flux

\* The provider's properties are a function of the state it holds (the stub's
\* scripted pressure is not).
StateFunction(g) == g.kind = "mix"

\* C1: when a call of fickian_adf whose steps no other call interleaves
\* returns, the provider holds TDY2, whatever it held before and whatever tog.
C1_ProviderLeftAtTDY2 ==
    \A w \in Workers :
        (serial /\ Returned(w)) => gas.TDY = frame[w].TDY2

\* A second serialized call from sB to sA, toggled off, has returned.
C1_Witness ==
    \E w \in Workers :
        /\ serial /\ Returned(w) /\ ncalls = 2
        /\ frame[w].TDY1 = sB /\ frame[w].TDY2 = sA /\ frame[w].tog = "0"

\* C2: fickian_adf takes no lock: each read of node 1 records the properties of
\* whatever state the shared provider holds at that moment, also a state that
\* another call has set.
C2_ReadsTakeSharedState ==
    [][\A w \in Workers :
          (frame[w].pc = "read1" /\ frame'[w].pc = "set2") =>
              /\ frame'[w].D_k1 = mix_diff_coeffs_mass(gas)
              /\ frame'[w].rho1 = density_mass(gas)
              /\ frame'[w].mu1 = viscosity(gas)
              /\ frame'[w].P1 = gas_P(gas)
              /\ frame'[w].Y1 = gas_Y(gas)]_vars

\* An interleaved call has returned a flux that differs from the flux the
\* same call returns alone on its own provider.
C2_Witness ==
    \E w \in Workers :
        /\ ~serial /\ StateFunction(gas) /\ Returned(w)
        /\ \E v \in Workers \ {w} : frame[v].pc # "idle"
        /\ frame[w].mass_flux # AloneFlux(frame[w])

\* C5: a call ends with the provider's failure exactly when the provider
\* rejects TDY1 or TDY2, and then it has produced no flux; a call that returns
\* has produced the flux of every species.
C5_RejectionPropagates ==
    \A w \in Workers :
        Exited(w) =>
            /\ frame[w].outcome = "InvalidState"
                   <=> (\/ ~Valid(gas.kind, frame[w].TDY1)
                        \/ ~Valid(gas.kind, frame[w].TDY2))
            /\ frame[w].outcome = "InvalidState" => frame[w].mass_flux = <<>>
            /\ frame[w].outcome = "return"
                   => Len(frame[w].mass_flux) = NSpecies(gas.kind)

\* The provider accepted TDY1, node 1 was read, and TDY2 was rejected.
C5_Witness ==
    \E w \in Workers :
        /\ Exited(w) /\ frame[w].outcome = "InvalidState"
        /\ Valid(gas.kind, frame[w].TDY1) /\ ~Valid(gas.kind, frame[w].TDY2)
        /\ frame[w].rho_k1 # <<>>

\* C6: a call with tog = 0 returns the zero vector over all species; a call
\* with tog = 1 or tog = True returns J_conv + J_diff.
C6_ToggleGates ==
    \A w \in Workers :
        Returned(w) =>
            /\ frame[w].tog = "0" =>
                   frame[w].mass_flux = [k \in 1 .. NSpecies(gas.kind) |-> Zero]
            /\ frame[w].tog \in {"1", "True"} =>
                   frame[w].mass_flux = VAdd(J_conv(frame[w]), J_diff(frame[w]))

\* A call toggled off has returned although its driving terms are not zero.
C6_Witness ==
    \E w \in Workers :
        /\ Returned(w) /\ frame[w].tog = "0"
        /\ \E k \in DOMAIN frame[w].mass_flux :
               Add(J_conv(frame[w])[k], J_diff(frame[w])[k]) # Zero

Swapped(p) == [p EXCEPT !.wt1 = p.wt2, !.wt2 = p.wt1]

\* C7: on a provider whose properties are a function of the state it holds,
\* the flux of a call is, species by species, the negation of the flux of the
\* call with TDY1 and TDY2 exchanged and wt1 and wt2 exchanged.
C7_SignAntisymmetry ==
    \A w \in Workers :
        (serial /\ StateFunction(gas) /\ Returned(w)) =>
            frame[w].mass_flux =
                VNeg(fickian_adf(frame[w].TDY2, frame[w].TDY1,
                                 FreshGas(gas.kind), Swapped(frame[w].p),
                                 frame[w].tog).f.mass_flux)

\* A call across a domain boundary (unequal weights) between different states
\* has returned a flux that is not zero.
C7_Witness ==
    \E w \in Workers :
        /\ serial /\ StateFunction(gas) /\ Returned(w)
        /\ frame[w].p = pBdry /\ frame[w].TDY1 = sA /\ frame[w].TDY2 = sB
        /\ frame[w].tog = "1"
        /\ frame[w].mass_flux[1] # Zero /\ frame[w].mass_flux[2] # Zero

\* The concrete scenario: one species, both nodes at sS, the scenario's
\* parameters, the provider's readings as listed, tog = 1.
Scenario(f) ==
    /\ f.pc = "exit" /\ f.outcome = "return"
    /\ f.TDY1 = sS /\ f.TDY2 = sS /\ f.p = pScen /\ f.tog = "1"
    /\ f.D_k1 = <<E(2, -5)>> /\ f.D_k2 = <<E(2, -5)>>
    /\ f.mu1 = E(2, -5) /\ f.mu2 = E(2, -5)
    /\ f.rho1 = One /\ f.rho2 = One
    /\ f.P1 = N(101325) /\ f.P2 = N(101300)

\* C9 as stated: in the concrete scenario J_diff is 0 and the returned flux is
\* -0.125.
C9_ScenarioAsStated ==
    \A w \in Workers :
        Scenario(frame[w]) =>
            /\ J_diff(frame[w]) = <<Zero>>
            /\ frame[w].mass_flux = <<Neg(Q(1, 8))>>

\* C9, amended: in the concrete scenario J_diff is 0 and the returned flux is
\* J_conv = +1.25e-4: positive, from node 1 into node 2.
C9_ScenarioFlux ==
    \A w \in Workers :
        Scenario(frame[w]) =>
            /\ J_diff(frame[w]) = <<Zero>>
            /\ frame[w].mass_flux = <<E(125, -6)>>
            /\ frame[w].mass_flux = J_conv(frame[w])

\* The scenario's call has returned.
C9_Witness == \E w \in Workers : Scenario(frame[w])

\* The provider as it is after its first and after its second setting in a
\* call that runs alone.
AtNode1(f) == SetTDY(FreshGas(gas.kind), f.TDY1)
AtNode2(f) == SetTDY(AtNode1(f), f.TDY2)

\* C10: on a provider whose properties are a function of the state it holds,
\* in a call that no other call interleaves, the properties of node 1 are
\* those of the provider at TDY1 and the properties of node 2 those of the
\* provider at TDY2, and the returned flux is the flux of the same call on a
\* fresh provider, whatever state earlier calls left.
C10_SerializedCallsIndependent ==
    \A w \in Workers :
        LET f == frame[w] IN
        (serial /\ StateFunction(gas)) =>
            /\ (f.pc \in {"set2", "read2"} \/ (Exited(w) /\ Valid(gas.kind, f.TDY1)))
                   => /\ f.D_k1 = mix_diff_coeffs_mass(AtNode1(f))
                      /\ f.rho1 = density_mass(AtNode1(f))
                      /\ f.mu1 = viscosity(AtNode1(f))
                      /\ f.P1 = gas_P(AtNode1(f))
                      /\ f.Y1 = gas_Y(AtNode1(f))
            /\ Returned(w)
                   => /\ f.D_k2 = mix_diff_coeffs_mass(AtNode2(f))
                      /\ f.rho2 = density_mass(AtNode2(f))
                      /\ f.mu2 = viscosity(AtNode2(f))
                      /\ f.P2 = gas_P(AtNode2(f))
                      /\ f.Y2 = gas_Y(AtNode2(f))
                      /\ f.mass_flux = AloneFlux(f)

\* The second of two serialized calls has returned a flux that is not zero,
\* having started from a state unlike the fresh provider's.
C10_Witness ==
    \E w \in Workers :
        /\ serial /\ StateFunction(gas) /\ Returned(w) /\ ncalls = 2
        /\ frame[w].TDY1 = sB /\ frame[w].TDY2 = sA
        /\ frame[w].mass_flux[1] # Zero

RadExited == rad.pc = "exit"

AllNodeArrays(p) == {p.r_jph, p.inv_dr, p.inv_r_j, p.inv_t_shl}

\* C4 as stated: for either variant, a node outside 0..len-1 of any node array
\* ends the call in an out-of-range failure without a result.
C4_OutOfRangeAsStated ==
    (/\ RadExited /\ rad.ver \in {1, 2}
     /\ \E arr \in AllNodeArrays(rad.p) : rad.node < 0 \/ rad.node >= Len(arr))
        => rad.outcome = "IndexError" /\ rad.drho_dt = <<>>

\* C4, amended: for either variant the call ends in IndexError, without a
\* result, exactly when node lies outside -len..len-1 of an array that the
\* variant subscripts (r_jph and 1/dr, for variant 2 also 1/r_j and 1/t_shl).
C4_IndexErrorIffOutside ==
    (RadExited /\ rad.ver \in {1, 2}) =>
        /\ rad.outcome = "IndexError"
               <=> \E arr \in Indexed(rad.p, rad.ver) :
                       rad.node < 0 - Len(arr) \/ rad.node >= Len(arr)
        /\ rad.outcome = "IndexError" => rad.drho_dt = <<>>
        /\ rad.outcome # "IndexError" => rad.outcome = "return"

\* A call of variant 2 with a node past the end of the shell arrays has ended.
C4_Witness ==
    /\ RadExited /\ rad.ver = 2 /\ rad.outcome = "IndexError"
    /\ rad.node = Len(rad.p.inv_t_shl) /\ rad.node < Len(rad.p.r_jph)

\* C8: where variant 2 returns, its result is, species by species, the result
\* of variant 1 on the same inputs times (1/r_j[node])^2 * (1/t_shl[node]),
\* and variant 1's result is the base term.
C8_VariantConsistency ==
    LET one == radial_fdiff(rad.rho_k1, rad.rho_k2, rad.p, rad.node, 1)
        r == PyIndex(rad.p.r_jph, rad.node)
        base == [k \in DOMAIN rad.rho_k1 |->
                    Mul(Mul(Mul(Mul(Mul(rad.p.D_eff_naf, rad.p.p_eff_SAnaf),
                                        rad.p.eps_tau2_n2), Mul(r, r)),
                            Sub(rad.rho_k1[k], rad.rho_k2[k])),
                        PyIndex(rad.p.inv_dr, rad.node))]
        rj == PyIndex(rad.p.inv_r_j, rad.node)
    IN  /\ (RadExited /\ rad.ver = 2 /\ rad.outcome = "return") =>
               /\ one.outcome = "return"
               /\ rad.drho_dt =
                      SMul(Mul(Mul(rj, rj), PyIndex(rad.p.inv_t_shl, rad.node)),
                           one.drho_dt)
        /\ (RadExited /\ rad.ver = 1 /\ rad.outcome = "return") =>
               rad.drho_dt = base

\* Variant 2 has returned a rate that is not zero.
C8_Witness ==
    /\ RadExited /\ rad.ver = 2 /\ rad.outcome = "return"
    /\ rad.drho_dt[1] # Zero /\ rad.drho_dt[2] # Zero
====
